---- MODULE Spec2Model ----
(***************************************************************************)
(* Wanderer: the trail of remembered cells, the room/loot generator, the   *)
(* backpack and the loot/search actions, as implemented by the three       *)
(* program variants src/wanderer.py, src/wanderer-v0-2.py and              *)
(* src/wanderer-v0-3.py.                                                   *)
(***************************************************************************)
EXTENDS Integers, Sequences, FiniteSets, TLC

VARIABLES
    variant,         \* which of the three programs is running
    rooms_data,      \* the records of the rooms table, as loaded
    items_data,      \* the records of the items table, as loaded
    weighted_rooms,  \* the weighted room pool built at start-up
    weighted_items,  \* the weighted item pool built at start-up
    trail,           \* `tail` / `GameState.trail`: index 1 here is index 0 there
    player_pos,      \* `player_pos`
    backpack,        \* `backpack`: item name -> held count (a dict)
    move_timer,      \* `move_timer`, in hundredths of a second
    last             \* outcome of the handler that ran last (what it returned/printed)

vars == <<variant, rooms_data, items_data, weighted_rooms, weighted_items, trail,
          player_pos, backpack, move_timer, last>>

\* what start-up builds and no handler changes afterwards
content == <<variant, rooms_data, items_data, weighted_rooms, weighted_items>>

(***************************************************************************)
(* Program constants.                                                      *)
(***************************************************************************)
MEMORY_LIMIT == 12
BACKPACK_CAPACITY == 20
DEFAULT_MAX_LOOT_V03 == 3
DEFAULT_MAX_LOOT_OLD == 6
LOOT_CAP_V03 == 5
LOOT_CAP_OLD == 3
MAX_TIER == 2
GAME_WIDTH == 600
SCREEN_HEIGHT == 600
BUFFER_TILES == 1
\* 0.15 s, in hundredths of a second
MOVE_COOLDOWN == 15

Variants == {"wanderer", "v0_2", "v0_3"}

(***************************************************************************)
(* Bounds of the model.                                                    *)
(***************************************************************************)
\* the walk of Spec stays on the cells (0,0) .. (WorldLen-1, 0)
WorldLen == 2
\* the walk of SpecTrail stays on the cells (0,0) .. (CorridorLen-1, 0)
CorridorLen == 13
\* the walk of SpecHoard goes east over the cells (0,0) .. (HoardLen-1, 0)
HoardLen == 8
\* the tables SpecCatalog loads have at most MaxRows rows
MaxRows == 2
\* the walk of SpecView stays within ArmLen cells east or south of (0,0)
ArmLen == 4
\* move_timer is followed down to -TimerFloor (wanderer.py and v0-2 let it fall
\* without end; only its sign is read)
TimerFloor == 15
\* the walk of SpecObjects stays on the cells (0,0) .. (LaneLen-1, 0)
LaneLen == 5
\* the walk of SpecVisits is followed for VisitsMax moves
VisitsMax == 14
\* SpecTiers asks for the tiers from -TierSpan to MAX_TIER + TierSpan
TierSpan == 2

(***************************************************************************)
(* Small helpers.                                                          *)
(***************************************************************************)
Min(a, b) == IF a < b THEN a ELSE b
Max(a, b) == IF a > b THEN a ELSE b

\* dict.get(key, default) on a record whose DOMAIN is the set of its keys
Get(d, key, default) == IF key \in DOMAIN d THEN d[key] ELSE default

\* str.strip() on the strings the model's content uses
Strip(s) ==
    CASE s = " " -> ""
      [] s = " stone " -> "stone"
      [] s = " search " -> "search"
      [] OTHER -> s

\* str.lower() on the strings the model's content uses
Lower(s) ==
    CASE s = "Take Loot" -> "take loot"
      [] s = "Search+" -> "search+"
      [] OTHER -> s

\* `not s or s.strip() == ''`
Blank(s) == s = "" \/ Strip(s) = ""

\* int(s): the strings that parse, and their values
IntStrings == {"-1", "0", "1", "2", "3", "4", "5", "6", "8", "10", "16"}
IntOf(s) ==
    CASE s = "-1" -> 0 - 1
      [] s = "0" -> 0
      [] s = "1" -> 1
      [] s = "2" -> 2
      [] s = "3" -> 3
      [] s = "4" -> 4
      [] s = "5" -> 5
      [] s = "6" -> 6
      [] s = "8" -> 8
      [] s = "10" -> 10
      [] s = "16" -> 16
      [] OTHER -> 0

\* float(s) accepts more than int(s) does; int(float(s)) truncates
FloatStrings == IntStrings \cup {"2.5"}
IntOfFloat(s) == IF s = "2.5" THEN 2 ELSE IntOf(s)

Range(s) == {s[i] : i \in DOMAIN s}

(***************************************************************************)
(* The content the runs are given: the parsed records of the rooms and     *)
(* items tables, and the weighted pools built from them.                   *)
(***************************************************************************)
\* a cell with loot, and the loot and deep-search actions in its slots
CellRoom ==
    [name |-> "Cell", type |-> "room", color |-> "gray", probability |-> "1",
     max_loot |-> "2", flavor_text |-> "A cell.",
     action1 |-> "Take Loot", action2 |-> "", action3 |-> "Search+",
     action4 |-> "", action5 |-> ""]

\* a cell with no loot, and the actions that only report in its slots
BareRoom ==
    [name |-> "Bare", type |-> "room", color |-> "gray", probability |-> "1",
     max_loot |-> "0", flavor_text |-> "Nothing.",
     action1 |-> "take loot", action2 |-> "leave", action3 |-> "rest",
     action4 |-> "inspect", action5 |-> "dance"]

\* a cell holding up to three items
HoardRoom ==
    [name |-> "Hoard", type |-> "treasure", color |-> "gold", probability |-> "1",
     max_loot |-> "3", flavor_text |-> "Gold.",
     action1 |-> "take loot", action2 |-> "", action3 |-> "", action4 |-> "",
     action5 |-> ""]

\* a cell holding one item
VaultRoom ==
    [name |-> "Vault", type |-> "treasure", color |-> "gold", probability |-> "1",
     max_loot |-> "1", flavor_text |-> "A vault.",
     action1 |-> "take loot", action2 |-> "", action3 |-> "", action4 |-> "",
     action5 |-> ""]

\* tier 2 is blank, so it falls back to tier 1
RockItem ==
    [name |-> "rock", probability |-> "1", tier0 |-> "pebble",
     tier1 |-> " stone ", tier2 |-> ""]

\* every tier has the same name
CoinItem ==
    [name |-> "coin", probability |-> "1", tier0 |-> "coin", tier1 |-> "coin",
     tier2 |-> "coin"]

\* load_file / load_tsv_data on the rows of a table: v0-3 strips every value,
\* the other two keep the rows as the reader yields them
load_file(v, rows) ==
    IF v = "v0_3"
    THEN [i \in DOMAIN rows |-> [k \in DOMAIN rows[i] |-> Strip(rows[i][k])]]
    ELSE rows

\* the fallback rows of load_data (v0-3)
DefaultRoomsV03 ==
    << [type |-> "room", name |-> "Empty Chamber", color |-> "gray",
        probability |-> "10", max_loot |-> "3",
        flavor_text |-> "A bare stone chamber with dusty corners.",
        action1 |-> "search", action2 |-> "take loot", action3 |-> "leave",
        action4 |-> "", action5 |-> ""],
       [type |-> "treasure", name |-> "Treasure Room", color |-> "gold",
        probability |-> "3", max_loot |-> "8",
        flavor_text |-> "Golden light reflects off piles of treasure.",
        action1 |-> "take loot", action2 |-> "search+", action3 |-> "leave",
        action4 |-> "", action5 |-> ""] >>

DefaultItemsV03 ==
    << [name |-> "coin", probability |-> "10", tier0 |-> "copper coin",
        tier1 |-> "silver coin", tier2 |-> "gold coin"],
       [name |-> "gem", probability |-> "5", tier0 |-> "rough stone",
        tier1 |-> "polished gem", tier2 |-> "precious jewel"] >>

\* the fallback rows of load_room_data and load_item_data (wanderer.py)
DefaultRoomsWanderer ==
    << [name |-> "Empty Room", type |-> "room", probability |-> "1",
        max_loot |-> "6",
        entry_text |-> "There doesn't seem to be anything here."] >>

DefaultItemsWanderer ==
    << [name |-> "Rock", probability |-> "16", tier0 |-> "Small Pebble",
        tier1 |-> "Stray Rock", tier2 |-> "Smooth Stone"] >>

\* a loader that keeps an empty table empty
load_rooms_bare(v, rows) == load_file(v, rows)

\* the rooms table as load_data / load_room_data leaves it: v0-3 and
\* wanderer.py put fallback rows in place of an empty table, v0-2 keeps it empty
load_rooms(v, rows) ==
    LET data == load_file(v, rows)
    IN  IF data # <<>> THEN data
        ELSE CASE v = "v0_3" -> DefaultRoomsV03
               [] v = "wanderer" -> DefaultRoomsWanderer
               [] OTHER -> <<>>

\* the items table, likewise
load_items(v, rows) ==
    LET data == load_file(v, rows)
    IN  IF data # <<>> THEN data
        ELSE CASE v = "v0_3" -> DefaultItemsV03
               [] v = "wanderer" -> DefaultItemsWanderer
               [] OTHER -> <<>>

\* int(record.get('probability', 0)): [ok, val]; ok = FALSE is the ValueError
ParseProbability(rec) ==
    IF "probability" \notin DOMAIN rec THEN [ok |-> TRUE, val |-> 0]
    ELSE IF rec.probability \in IntStrings
         THEN [ok |-> TRUE, val |-> IntOf(rec.probability)]
         ELSE [ok |-> FALSE, val |-> 0]

\* [rec] * n
Repeat(rec, n) == [i \in 1..Max(n, 0) |-> rec]

\* a loop that appends every record whose probability parses, once
RECURSIVE WeightedLoop_once(_, _)
WeightedLoop_once(v, data) ==
    IF data = <<>> THEN <<>>
    ELSE LET p == ParseProbability(Head(data))
         IN  Repeat(Head(data), IF p.ok THEN 1 ELSE 0) \o WeightedLoop_once(v, Tail(data))

\* the loop of create_weighted_lists / create_weighted_room_list over the raw
\* records; v0-2 has no `prob > 0` test, and [rec] * prob is empty for prob <= 0
RECURSIVE WeightedLoop(_, _)
WeightedLoop(v, data) ==
    IF data = <<>> THEN <<>>
    ELSE LET p == ParseProbability(Head(data))
             n == IF ~p.ok THEN 0
                  ELSE IF v = "v0_2" THEN p.val
                  ELSE IF p.val > 0 THEN p.val ELSE 0
         IN  Repeat(Head(data), n) \o WeightedLoop(v, Tail(data))

\* the weighted pool of one table; wanderer.py and v0-3 fall back to the first
\* raw record when the loop leaves the pool empty, v0-2 does not
create_weighted_list(v, data) ==
    LET pool == WeightedLoop(v, data)
    IN  IF pool # <<>> THEN pool
        ELSE IF v = "v0_2" THEN <<>>
        ELSE IF data # <<>> THEN <<Head(data)>>
        ELSE <<>>

(***************************************************************************)
(* The generator.                                                          *)
(***************************************************************************)
TierKey(t) ==
    CASE t = 0 -> "tier0"
      [] t = 1 -> "tier1"
      [] t = 2 -> "tier2"
      [] OTHER -> "tier?"

\* the fallback loop `for fallback_tier in range(tier - 1, -1, -1)`: the value
\* item_name has when the loop ends (cur is its value before the loop)
RECURSIVE FallbackLoop(_, _, _)
FallbackLoop(item_data, t, cur) ==
    IF t < 0 THEN cur
    ELSE LET nm == Get(item_data, TierKey(t), "")
         IN  IF ~Blank(nm) THEN nm ELSE FallbackLoop(item_data, t - 1, nm)

\* a generator that goes straight to the name when the asked tier is blank
item_name_of_direct(item_data, tier) ==
    LET first == Get(item_data, TierKey(Min(tier, MAX_TIER)), "")
    IN  Strip(IF Blank(first) THEN Get(item_data, "name", "Unknown Item") ELSE first)

\* generate_item once random.choice has drawn item_data from the pool
item_name_of(item_data, tier) ==
    LET first == Get(item_data, TierKey(Min(tier, MAX_TIER)), "")
        after == IF Blank(first) THEN FallbackLoop(item_data, tier - 1, first)
                 ELSE first
        final == IF Blank(first) /\ Blank(after)
                 THEN Get(item_data, "name", "Unknown Item")
                 ELSE after
    IN  Strip(final)

\* generate_item: every name a call with this tier can return
generate_item(items, tier) ==
    IF items = <<>> THEN {"Small Pebble"}
    ELSE {item_name_of(items[i], tier) : i \in DOMAIN items}

DefaultRoomV03 ==
    [type |-> "room", name |-> "Empty Room", color |-> "gray", probability |-> "1",
     max_loot |-> "3", flavor_text |-> "There doesn't seem to be anything here.",
     action1 |-> "search", action2 |-> "take loot", action3 |-> "leave",
     action4 |-> "", action5 |-> ""]

DefaultRoomV02 ==
    [name |-> "Empty Room", type |-> "room", probability |-> "1", max_loot |-> "6",
     flavor_text |-> "There doesn't seem to be anything here."]

DefaultRoomWanderer ==
    [name |-> "Empty Room", type |-> "room", probability |-> "1", max_loot |-> "6",
     entry_text |-> "There doesn't seem to be anything here."]

\* generate_room: every room a call can return (a copy of a drawn template)
generate_room(v, rooms) ==
    IF rooms = <<>>
    THEN {CASE v = "v0_3" -> DefaultRoomV03
            [] v = "v0_2" -> DefaultRoomV02
            [] OTHER -> DefaultRoomWanderer}
    ELSE Range(rooms)

\* max_loot as generate_room_loot reads it
max_loot_of(v, room_data) ==
    IF v = "v0_3"
    THEN IF "max_loot" \notin DOMAIN room_data THEN DEFAULT_MAX_LOOT_V03
         ELSE IF room_data.max_loot \in FloatStrings
              THEN IntOfFloat(room_data.max_loot)
              ELSE DEFAULT_MAX_LOOT_V03
    ELSE IF "max_loot" \notin DOMAIN room_data THEN DEFAULT_MAX_LOOT_OLD
         ELSE IF room_data.max_loot \in IntStrings
              THEN IntOf(room_data.max_loot)
              ELSE DEFAULT_MAX_LOOT_OLD

\* v0-3's draw of up to five items in every variant
num_items_of_wide(v, room_data) ==
    LET max_loot == max_loot_of(v, room_data)
    IN  IF max_loot <= 0 THEN {0} ELSE 1..Min(max_loot, LOOT_CAP_V03)

\* a draw of one to three items whatever max_loot is
num_items_of_uncapped(v, room_data) == 1..LOOT_CAP_OLD

\* num_items: every number of items a call can decide to draw
num_items_of(v, room_data) ==
    LET max_loot == max_loot_of(v, room_data)
    IN  IF v = "v0_3"
        THEN IF max_loot <= 0 THEN {0}
             ELSE 1..Min(max_loot, LOOT_CAP_V03)
        ELSE {Max(0, Min(r, max_loot)) : r \in 1..LOOT_CAP_OLD}

\* the tier of one draw: tier_roll < 0.6, < 0.85, otherwise
TierRolls == {0, 1, 2}

\* generate_room_loot: every loot list a call can return
generate_room_loot(v, items, room_data) ==
    LET names == UNION {generate_item(items, t) : t \in TierRolls}
    IN  UNION {[1..k -> names] : k \in num_items_of(v, room_data)}

(***************************************************************************)
(* The backpack.                                                           *)
(***************************************************************************)
EmptyBackpack == [n \in {} |-> 0]

\* sum(backpack.values())
RECURSIVE SumOver(_, _)
SumOver(bp, keys) ==
    IF keys = {} THEN 0
    ELSE LET k == CHOOSE x \in keys : TRUE
         IN  bp[k] + SumOver(bp, keys \ {k})

Total(bp) == SumOver(bp, DOMAIN bp)

\* backpack.get(name, 0)
Held(bp, name) == IF name \in DOMAIN bp THEN bp[name] ELSE 0

\* backpack[item_name] = backpack.get(item_name, 0) + 1
Incremented(bp, item_name) ==
    [n \in DOMAIN bp \cup {item_name} |->
        IF n = item_name THEN Held(bp, item_name) + 1 ELSE bp[n]]

\* a capacity test that lets one item too many in
add_to_backpack_lax(bp, item_name) ==
    IF Total(bp) <= BACKPACK_CAPACITY
    THEN [ok |-> TRUE, backpack |-> Incremented(bp, item_name)]
    ELSE [ok |-> FALSE, backpack |-> bp]

\* a capacity test on the number of distinct item names
add_to_backpack_distinct(bp, item_name) ==
    IF Cardinality(DOMAIN bp) < BACKPACK_CAPACITY
    THEN [ok |-> TRUE, backpack |-> Incremented(bp, item_name)]
    ELSE [ok |-> FALSE, backpack |-> bp]

\* add_to_backpack: the value returned and the backpack afterwards
add_to_backpack(bp, item_name) ==
    IF Total(bp) < BACKPACK_CAPACITY
    THEN [ok |-> TRUE, backpack |-> Incremented(bp, item_name)]
    ELSE [ok |-> FALSE, backpack |-> bp]

(***************************************************************************)
(* The trail.                                                              *)
(***************************************************************************)
NewEntry_looted(pos, room_data, room_loot) ==
    [pos |-> pos, room |-> room_data, loot |-> room_loot, looted |-> TRUE]
NewEntry(pos, room_data, room_loot) ==
    [pos |-> pos, room |-> room_data, loot |-> room_loot, looted |-> FALSE]

\* the first index whose entry has position target_pos, 0 when there is none
FindPos(tr, target_pos) ==
    IF \E i \in DOMAIN tr : tr[i].pos = target_pos
    THEN CHOOSE i \in DOMAIN tr :
            /\ tr[i].pos = target_pos
            /\ \A j \in 1..(i - 1) : tr[j].pos # target_pos
    ELSE 0

\* list.pop(i)
RemoveAt_rotated(tr, i) == SubSeq(tr, i + 1, Len(tr)) \o SubSeq(tr, 1, i - 1)
RemoveAt(tr, i) == [j \in 1..(Len(tr) - 1) |-> IF j < i THEN tr[j] ELSE tr[j + 1]]

\* list.remove(x): drops the first element equal to x
RemoveFirst(tr, x) ==
    LET i == CHOOSE k \in DOMAIN tr : tr[k] = x /\ \A j \in 1..(k - 1) : tr[j] # x
    IN  RemoveAt(tr, i)

\* a scan that finds the entry but leaves it where it is
Extracted_kept(v, tr, target_pos) == tr

\* the scan of move_player: the trail without the entry found at target_pos.
\* v0-3 pops the index found; the other two call list.remove on the entry
Extracted(v, tr, target_pos) ==
    LET i == FindPos(tr, target_pos)
    IN  IF i = 0 THEN tr
        ELSE IF v = "v0_3" THEN RemoveAt(tr, i)
        ELSE RemoveFirst(tr, tr[i])

\* a capacity check that is off by one
Evicted_late(tr) ==
    IF Len(tr) > MEMORY_LIMIT + 1 THEN SubSeq(tr, 1, Len(tr) - 1) ELSE tr

\* an eviction that pops the entry behind the head instead of the tail
Evicted_second(tr) == IF Len(tr) > MEMORY_LIMIT THEN RemoveAt(tr, 2) ELSE tr

\* `if len(trail) > MEMORY_LIMIT: trail.pop()`
\* an eviction that drops the entry in the middle of the trail
Evicted_middle(tr) ==
    IF Len(tr) > MEMORY_LIMIT THEN RemoveAt(tr, Len(tr) \div 2) ELSE tr

Evicted(tr) == IF Len(tr) > MEMORY_LIMIT THEN SubSeq(tr, 1, Len(tr) - 1) ELSE tr

\* a move that closes the room again when it is re-entered
move_player_relock(v, tr, target_pos, fresh) ==
    LET i == FindPos(tr, target_pos)
        existing_entry == IF i = 0 THEN fresh ELSE [tr[i] EXCEPT !.looted = FALSE]
    IN  Evicted(<<existing_entry>> \o Extracted(v, tr, target_pos))

\* a move that appends the entry instead of inserting it at the front
move_player_append(v, tr, target_pos, fresh) ==
    LET i == FindPos(tr, target_pos)
        existing_entry == IF i = 0 THEN fresh ELSE tr[i]
    IN  Evicted(Extracted(v, tr, target_pos) \o <<existing_entry>>)

\* move_player, given the entry a miss would generate: the trail afterwards
\* a move_player that leaves a remembered entry where it is
move_player_fifo(v, tr, target_pos, fresh) ==
    IF FindPos(tr, target_pos) # 0 THEN tr ELSE Evicted(<<fresh>> \o tr)

move_player(v, tr, target_pos, fresh) ==
    LET i == FindPos(tr, target_pos)
        existing_entry == IF i = 0 THEN fresh ELSE tr[i]
    IN  Evicted(<<existing_entry>> \o Extracted(v, tr, target_pos))

(***************************************************************************)
(* The loot and search actions.  Each returns what the handler leaves       *)
(* behind: the message, the current entry and the backpack.                *)
(***************************************************************************)
Outcome(msg, entry, bp) == [msg |-> msg, entry |-> entry, backpack |-> bp]

\* a take that pops the last item of the loot list instead of the first
action_take_loot_last(entry, bp) ==
    IF entry.loot = <<>> THEN Outcome("nothing to take", entry, bp)
    ELSE IF Total(bp) >= BACKPACK_CAPACITY THEN Outcome("backpack full", entry, bp)
    ELSE LET item_name == entry.loot[Len(entry.loot)]
             rest == SubSeq(entry.loot, 1, Len(entry.loot) - 1)
             added == add_to_backpack(bp, item_name)
         IN  Outcome("found",
                     [entry EXCEPT !.loot = rest,
                                   !.looted = IF rest = <<>> THEN TRUE ELSE @],
                     added.backpack)

\* GameLogic.action_take_loot (v0-3)
action_take_loot(entry, bp) ==
    IF entry.loot = <<>> THEN Outcome("nothing to take", entry, bp)
    ELSE IF Total(bp) >= BACKPACK_CAPACITY THEN Outcome("backpack full", entry, bp)
    ELSE LET item_name == Head(entry.loot)
             rest == Tail(entry.loot)
             added == add_to_backpack(bp, item_name)
         IN  Outcome("found",
                     [entry EXCEPT !.loot = rest,
                                   !.looted = IF rest = <<>> THEN TRUE ELSE @],
                     added.backpack)

\* the body shared by action_search and action_search_plus once the chance
\* roll has succeeded: a tier of `tiers`, an item of that tier, one add
SearchFinds(items, tiers, entry, bp) ==
    {LET added == add_to_backpack(bp, item)
     IN  Outcome(IF added.ok THEN "search found" ELSE "search full", entry,
                 added.backpack) :
        item \in UNION {generate_item(items, t) : t \in tiers}}

\* a search that also pockets the first item of the room's loot
action_search_taking(items, entry, bp) ==
    {action_take_loot(entry, bp)} \cup {Outcome("search nothing", entry, bp)}

\* GameLogic.action_search (v0-3): random.random() < 0.3, tier randint(0, 1)
action_search(items, entry, bp) ==
    SearchFinds(items, {0, 1}, entry, bp) \cup {Outcome("search nothing", entry, bp)}

\* GameLogic.action_search_plus (v0-3): random.random() < 0.5, tier randint(1, 2)
action_search_plus(items, entry, bp) ==
    SearchFinds(items, {1, 2}, entry, bp) \cup {Outcome("search nothing", entry, bp)}

\* GameLogic.perform_action (v0-3): every outcome of one call
perform_action(items, action_text, entry, bp) ==
    IF Blank(action_text) THEN {Outcome("no action", entry, bp)}
    ELSE LET action == Lower(Strip(action_text))
         IN  CASE action = "take loot" -> {action_take_loot(entry, bp)}
               [] action = "search" -> action_search(items, entry, bp)
               [] action = "search+" -> action_search_plus(items, entry, bp)
               [] action = "leave" -> {Outcome("leave", entry, bp)}
               [] action = "rest" -> {Outcome("rest", entry, bp)}
               [] action = "inspect" -> {Outcome("inspect", entry, bp)}
               [] OTHER -> {Outcome("generic", entry, bp)}

\* `for item in loot: if add_to_backpack(item) ... else break`: the backpack
\* afterwards and how many items went in
RECURSIVE CollectLoop(_, _, _)
CollectLoop(loot, bp, n) ==
    IF loot = <<>> THEN [backpack |-> bp, collected |-> n]
    ELSE LET added == add_to_backpack(bp, Head(loot))
         IN  IF added.ok THEN CollectLoop(Tail(loot), added.backpack, n + 1)
             ELSE [backpack |-> bp, collected |-> n]

\* a K_l handler that does not look at the looted flag
loot_key_wanderer_again(entry, bp) ==
    IF entry.loot # <<>>
    THEN LET got == CollectLoop(entry.loot, bp, 0)
         IN  IF got.collected > 0
             THEN Outcome("collected", [entry EXCEPT !.looted = TRUE], got.backpack)
             ELSE Outcome("no room", entry, got.backpack)
    ELSE Outcome("no loot", entry, bp)

\* the K_l handler of wanderer.py
loot_key_wanderer(entry, bp) ==
    IF ~entry.looted /\ entry.loot # <<>>
    THEN LET got == CollectLoop(entry.loot, bp, 0)
         IN  IF got.collected > 0
             THEN Outcome("collected", [entry EXCEPT !.looted = TRUE], got.backpack)
             ELSE Outcome("no room", entry, got.backpack)
    ELSE IF entry.looted THEN Outcome("already looted", entry, bp)
    ELSE Outcome("no loot", entry, bp)

\* the K_l handler of v0-2
loot_key_v02(entry, bp) ==
    IF ~entry.looted /\ entry.loot # <<>>
    THEN LET got == CollectLoop(entry.loot, bp, 0)
         IN  Outcome("looted", [entry EXCEPT !.looted = TRUE], got.backpack)
    ELSE Outcome("skipped", entry, bp)

ActionSlot(n) ==
    CASE n = 1 -> "action1"
      [] n = 2 -> "action2"
      [] n = 3 -> "action3"
      [] n = 4 -> "action4"
      [] n = 5 -> "action5"

(***************************************************************************)
(* What a frame computes from the trail: the view bounds, the tile size    *)
(* and the offset the camera goes to.                                      *)
(***************************************************************************)
\* min(xs) and max(xs) of a non-empty list
RECURSIVE MinOf(_)
MinOf(xs) == IF Len(xs) = 1 THEN xs[1] ELSE Min(xs[1], MinOf(Tail(xs)))

RECURSIVE MaxOf(_)
MaxOf(xs) == IF Len(xs) = 1 THEN xs[1] ELSE Max(xs[1], MaxOf(Tail(xs)))

\* view bounds without the margin
view_bounds_tight(tr) ==
    LET xs == [i \in DOMAIN tr |-> tr[i].pos[1]]
        ys == [i \in DOMAIN tr |-> tr[i].pos[2]]
    IN  [min_x |-> MinOf(xs), max_x |-> MaxOf(xs),
         min_y |-> MinOf(ys), max_y |-> MaxOf(ys)]

view_bounds(tr) ==
    LET xs == [i \in DOMAIN tr |-> tr[i].pos[1]]
        ys == [i \in DOMAIN tr |-> tr[i].pos[2]]
    IN  [min_x |-> MinOf(xs) - BUFFER_TILES, max_x |-> MaxOf(xs) + BUFFER_TILES,
         min_y |-> MinOf(ys) - BUFFER_TILES, max_y |-> MaxOf(ys) + BUFFER_TILES]

view_width(tr) == view_bounds(tr).max_x - view_bounds(tr).min_x + 1
view_height(tr) == view_bounds(tr).max_y - view_bounds(tr).min_y + 1

\* a tile size taken from the width alone
tile_size_by_width(tr) == GAME_WIDTH \div view_width(tr)

tile_size(tr) ==
    LET tile_size_x == GAME_WIDTH \div view_width(tr)
        tile_size_y == SCREEN_HEIGHT \div view_height(tr)
    IN  Min(tile_size_x, tile_size_y)

target_offset(tr) ==
    <<(GAME_WIDTH - view_width(tr) * tile_size(tr)) \div 2,
      (SCREEN_HEIGHT - view_height(tr) * tile_size(tr)) \div 2>>

(***************************************************************************)
(* The state machine.                                                      *)
(***************************************************************************)
Directions == {<<0, 0 - 1>>, <<0, 1>>, <<0 - 1, 0>>, <<1, 0>>}

\* the cells a walk is kept on
World == {<<x, 0>> : x \in 0..(WorldLen - 1)}
Corridor == {<<x, 0>> : x \in 0..(CorridorLen - 1)}
Hoard == {<<x, 0>> : x \in 0..(HoardLen - 1)}
Bend == {<<x, 0>> : x \in 0..ArmLen} \cup {<<0, y>> : y \in 0..ArmLen}

\* every entry a cache miss at pos can generate
FreshEntries(pos) ==
    {NewEntry(pos, room_data, room_loot) :
        <<room_data, room_loot>> \in
            UNION {{<<r, l>> : l \in generate_room_loot(variant, weighted_items, r)} :
                   r \in generate_room(variant, weighted_rooms)}}

\* start-up with the given rows of the two tables: the records loaded, the
\* pools, then the one-entry trail
InitWith(room_rows, item_rows) ==
    /\ variant \in Variants
    /\ rooms_data = load_rooms(variant, room_rows)
    /\ items_data = load_items(variant, item_rows)
    /\ weighted_rooms = create_weighted_list(variant, rooms_data)
    /\ weighted_items = create_weighted_list(variant, items_data)
    /\ player_pos = <<0, 0>>
    /\ trail \in {<<e>> : e \in FreshEntries(<<0, 0>>)}
    /\ backpack = EmptyBackpack
    /\ move_timer = 0
    /\ last = [op |-> "init", ret |-> ""]

\* move_player(target) from a handler, and the restart of the cooldown that
\* follows it: the target is one step from player_pos
MoveTo(cells, d) ==
    LET target == <<player_pos[1] + d[1], player_pos[2] + d[2]>>
        hit == FindPos(trail, target) # 0
    IN  /\ target \in cells
        /\ \E fresh \in (IF hit THEN {trail[1]} ELSE FreshEntries(target)) :
              trail' = move_player(variant, trail, target, fresh)
        /\ player_pos' = target
        /\ move_timer' = MOVE_COOLDOWN
        /\ last' = [op |-> "move",
                    ret |-> IF hit THEN "revisit"
                            ELSE IF Len(trail) >= MEMORY_LIMIT THEN "evict"
                            ELSE "new"]
        /\ UNCHANGED <<content, backpack>>

\* `move_timer -= dt` at the top of a frame that took dt: v0-3 stops the timer
\* at 0, the other two let it go below
Ticked(dt) ==
    IF variant = "v0_3" THEN Max(0, move_timer - dt) ELSE move_timer - dt

\* a direction key, with the cooldown ignored
KeyMove_eager(cells, d, dt) == MoveTo(cells, d)

\* a frame with a direction key: the key is taken when the cooldown has run
\* out; a key that comes before that is dropped, and the frame is as Frame(dt)
KeyMove(cells, d, dt) ==
    /\ Ticked(dt) <= 0
    /\ MoveTo(cells, d)

\* a frame with a click on a cell one step from player_pos (wanderer.py): no
\* look at the cooldown
MouseMove(cells, d, dt) ==
    /\ variant = "wanderer"
    /\ MoveTo(cells, d)

\* a numeric key that restarts the cooldown as a move does
ActionKey_restart(n, dt) ==
    LET current_entry == trail[1]
        action_text == Get(current_entry.room, ActionSlot(n), "")
    IN  /\ variant = "v0_3"
        /\ Ticked(dt) <= 0
        /\ action_text # ""
        /\ \E o \in perform_action(weighted_items, action_text, current_entry, backpack) :
              /\ trail' = [trail EXCEPT ![1] = o.entry]
              /\ backpack' = o.backpack
              /\ last' = [op |-> ActionSlot(n), ret |-> o.msg]
        /\ move_timer' = MOVE_COOLDOWN
        /\ UNCHANGED <<content, player_pos>>

\* a frame with a numeric key 1..5 (v0-3): the slot's action on the current
\* entry; v0-3 takes no key before the cooldown has run out
ActionKey(n, dt) ==
    LET current_entry == trail[1]
        action_text == Get(current_entry.room, ActionSlot(n), "")
    IN  /\ variant = "v0_3"
        /\ Ticked(dt) <= 0
        /\ action_text # ""
        /\ \E o \in perform_action(weighted_items, action_text, current_entry, backpack) :
              /\ trail' = [trail EXCEPT ![1] = o.entry]
              /\ backpack' = o.backpack
              /\ last' = [op |-> ActionSlot(n), ret |-> o.msg]
        /\ move_timer' = Ticked(dt)
        /\ UNCHANGED <<content, player_pos>>

\* a frame with the L key (wanderer.py and v0-2): collect the current entry's
\* loot; v0-2 takes no key before the cooldown has run out
LootKey(dt) ==
    LET o == IF variant = "wanderer" THEN loot_key_wanderer(trail[1], backpack)
             ELSE loot_key_v02(trail[1], backpack)
    IN  /\ variant \in {"wanderer", "v0_2"}
        /\ variant = "v0_2" => Ticked(dt) <= 0
        /\ Ticked(dt) >= 0 - TimerFloor
        /\ trail' = [trail EXCEPT ![1] = o.entry]
        /\ backpack' = o.backpack
        /\ last' = [op |-> "loot key", ret |-> o.msg]
        /\ move_timer' = Ticked(dt)
        /\ UNCHANGED <<content, player_pos>>

\* a frame without an event that a handler takes
Frame(dt) ==
    /\ Ticked(dt) >= 0 - TimerFloor
    /\ move_timer' = Ticked(dt)
    /\ last' = [op |-> "frame", ret |-> ""]
    /\ UNCHANGED <<content, trail, player_pos, backpack>>

\* the lengths of the frames SpecCooldown follows
FrameTimes == {5, 10}

\* the frames with an event
Step(cells, dts) ==
    \/ \E d \in Directions, dt \in dts : KeyMove(cells, d, dt)
    \/ \E d \in Directions, dt \in dts : MouseMove(cells, d, dt)
    \/ \E n \in 1..5, dt \in dts : ActionKey(n, dt)
    \/ \E dt \in dts : LootKey(dt)

\* The walks: the player does something in every frame, and a frame takes as
\* long as the cooldown
Init == InitWith(<<CellRoom>>, <<RockItem>>)
Next == Step(World, {MOVE_COOLDOWN})
Spec == Init /\ [][Next]_vars

InitTrail == InitWith(<<BareRoom>>, <<CoinItem>>)
NextTrail == Step(Corridor, {MOVE_COOLDOWN})
SpecTrail == InitTrail /\ [][NextTrail]_vars

\* A player of wanderer.py or v0-2 who walks east through rooms of up to three
\* coins and presses L in each room before moving on: the walk on which these
\* two programs fill the backpack
InitHoard == InitWith(<<HoardRoom>>, <<CoinItem>>) /\ variant # "v0_3"
HoardMove == last.op = "loot key" /\ KeyMove(Hoard, <<1, 0>>, MOVE_COOLDOWN)
NextHoard == HoardMove \/ LootKey(MOVE_COOLDOWN)
SpecHoard == InitHoard /\ [][NextHoard]_vars

\* A walk along two arms that meet at the start, one going east and one going
\* south, through rooms without loot: the views of every width and height
InitView == InitWith(<<BareRoom>>, <<CoinItem>>)
NextView == Step(Bend, {MOVE_COOLDOWN})
SpecView == InitView /\ [][NextView]_vars

\* A walk up and down the corridor through rooms of one coin; the player takes
\* loot in the start cell only, so that (0,0) is the cell that is looted,
\* forgotten at the far end and entered again
InitReturn == InitWith(<<VaultRoom>>, <<CoinItem>>)
NextReturn ==
    \/ \E d \in Directions : KeyMove(Corridor, d, MOVE_COOLDOWN)
    \/ \E d \in Directions : MouseMove(Corridor, d, MOVE_COOLDOWN)
    \/ player_pos = <<0, 0>> /\ ActionKey(1, MOVE_COOLDOWN)
    \/ player_pos = <<0, 0>> /\ LootKey(MOVE_COOLDOWN)
SpecReturn == InitReturn /\ [][NextReturn]_vars

\* perform_action(action_text, current_entry) called with a text of its own,
\* not with the text of a slot of the room
PerformAction(action_text) ==
    /\ variant = "v0_3"
    /\ \E o \in perform_action(weighted_items, action_text, trail[1], backpack) :
          /\ trail' = [trail EXCEPT ![1] = o.entry]
          /\ backpack' = o.backpack
          /\ last' = [op |-> "perform_action", ret |-> o.msg, action |-> action_text]
    /\ UNCHANGED <<content, player_pos, move_timer>>

\* the texts perform_action is called with: every branch, with and without
\* capitals and blanks around
ActionTexts ==
    {"Take Loot", "search", " search ", "Search+", "leave", "rest", "inspect",
     "dance", "", " "}

\* v0-3 in one room of up to two items, every action tried on it in any order
InitActions == InitWith(<<CellRoom>>, <<RockItem>>) /\ variant = "v0_3"
NextActions == \E action_text \in ActionTexts : PerformAction(action_text)
SpecActions == InitActions /\ [][NextActions]_vars

\* The same walk with frames shorter than the cooldown, with and without an
\* event
InitCooldown == InitWith(<<BareRoom>>, <<CoinItem>>)
NextCooldown ==
    \/ Step(Bend, FrameTimes)
    \/ \E dt \in FrameTimes : Frame(dt)
SpecCooldown == InitCooldown /\ [][NextCooldown]_vars

\* The walk with a log: `last.visited` is every position move_player has been
\* called with, the start cell first.  The walk is on the corridor and the one
\* cell south of its start, so that the start cell can be entered again before
\* the trail is full
Comb == Corridor \cup {<<0, 1>>}

Visited == IF "visited" \in DOMAIN last THEN last.visited ELSE <<<<0, 0>>>>

MoveLogged(d) ==
    LET target == <<player_pos[1] + d[1], player_pos[2] + d[2]>>
        hit == FindPos(trail, target) # 0
    IN  /\ target \in Comb
        /\ Len(Visited) <= VisitsMax
        /\ variant = "wanderer" \/ Ticked(MOVE_COOLDOWN) <= 0
        /\ \E fresh \in (IF hit THEN {trail[1]} ELSE FreshEntries(target)) :
              trail' = move_player(variant, trail, target, fresh)
        /\ player_pos' = target
        /\ move_timer' = MOVE_COOLDOWN
        /\ last' = [op |-> "move",
                    ret |-> IF hit THEN "revisit"
                            ELSE IF Len(trail) >= MEMORY_LIMIT THEN "evict"
                            ELSE "new",
                    visited |-> Append(Visited, target)]
        /\ UNCHANGED <<content, backpack>>

InitVisits == InitWith(<<BareRoom>>, <<CoinItem>>)
NextVisits == \E d \in Directions : MoveLogged(d)
SpecVisits == InitVisits /\ [][NextVisits]_vars

(***************************************************************************)
(* The room dicts as objects.  Here every trail entry carries, next to     *)
(* its room, the identity `id` of the dict that room is: the raw records   *)
(* are the objects 1..Len(rooms_data), every entry of the weighted pool is *)
(* one of them (the pool is built of references to the raw records), and a *)
(* new dict gets an identity that no live object has.                      *)
(***************************************************************************)
\* the identities of the dicts that are alive: the raw records and the rooms
\* of the entries of tr
LiveIds(raw, tr) == (1..Len(raw)) \cup {tr[k].id : k \in DOMAIN tr}

\* the identity of a dict made now
NewId(raw, tr) ==
    CHOOSE n \in 1..(Len(raw) + Len(tr) + 1) :
        /\ n \notin LiveIds(raw, tr)
        /\ \A m \in 1..(n - 1) : m \in LiveIds(raw, tr)

\* a generate_room that hands out the drawn template itself
generate_room_object_shared(v, rooms, raw, tr) ==
    IF rooms = <<>> THEN {<<r, NewId(raw, tr)>> : r \in generate_room(v, rooms)}
    ELSE {<<rooms[i], CHOOSE j \in DOMAIN raw : raw[j] = rooms[i]>> : i \in DOMAIN rooms}

\* generate_room with the identity of what it returns: `.copy()` of the drawn
\* template, or the dict literal, is a new dict
generate_room_object(v, rooms, raw, tr) ==
    {<<r, NewId(raw, tr)>> : r \in generate_room(v, rooms)}

\* every entry a cache miss at pos can generate, with the identity of its room
FreshObjects(pos, tr) ==
    {NewEntry(pos, o[1], room_loot) @@ [id |-> o[2]] :
        <<o, room_loot>> \in
            UNION {{<<g, l>> : l \in generate_room_loot(variant, weighted_items, g[1])} :
                   g \in generate_room_object(variant, weighted_rooms, rooms_data, tr)}}

\* the cells the walk of SpecObjects is kept on
Lane == {<<x, 0>> : x \in 0..(LaneLen - 1)}

InitObjects ==
    /\ variant \in Variants
    /\ rooms_data = load_rooms(variant, <<VaultRoom, BareRoom>>)
    /\ items_data = load_items(variant, <<CoinItem>>)
    /\ weighted_rooms = create_weighted_list(variant, rooms_data)
    /\ weighted_items = create_weighted_list(variant, items_data)
    /\ player_pos = <<0, 0>>
    /\ trail \in {<<e>> : e \in FreshObjects(<<0, 0>>, <<>>)}
    /\ backpack = EmptyBackpack
    /\ move_timer = 0
    /\ last = [op |-> "init", ret |-> ""]

\* a frame with a direction key or a click that is taken: move_player(target)
\* with the identities followed
MoveObject(d) ==
    LET target == <<player_pos[1] + d[1], player_pos[2] + d[2]>>
        hit == FindPos(trail, target) # 0
    IN  /\ target \in Lane
        /\ variant = "wanderer" \/ Ticked(MOVE_COOLDOWN) <= 0
        /\ \E fresh \in (IF hit THEN {trail[1]} ELSE FreshObjects(target, trail)) :
              trail' = move_player(variant, trail, target, fresh)
        /\ player_pos' = target
        /\ move_timer' = MOVE_COOLDOWN
        /\ last' = [op |-> "move", ret |-> IF hit THEN "revisit" ELSE "new"]
        /\ UNCHANGED <<content, backpack>>

NextObjects ==
    \/ \E d \in Directions : MoveObject(d)
    \/ \E n \in 1..5 : ActionKey(n, MOVE_COOLDOWN)
    \/ LootKey(MOVE_COOLDOWN)
SpecObjects == InitObjects /\ [][NextObjects]_vars

(***************************************************************************)
(* Start-up on its own: the tables are read, the pools are built from      *)
(* them, and the generator is asked for rooms and items.                   *)
(***************************************************************************)
\* the probability column of a row; NoField is a table without the column
NoField == "(none)"
ProbFields == {"2", "1", "0", "-1", "abc", NoField}

RowNames == <<"A", "B", "C", "D">>

\* row i of a table, with the given probability field
Row(i, p) ==
    IF p = NoField THEN [name |-> RowNames[i]]
    ELSE [name |-> RowNames[i], probability |-> p]

\* every table of at most MaxRows rows
Tables ==
    UNION {{[i \in 1..n |-> Row(i, f[i])] : f \in [1..n -> ProbFields]} :
           n \in 0..MaxRows}

\* load_data up to the call of create_weighted_lists
InitCatalog ==
    /\ variant \in Variants
    /\ \E room_rows \in Tables : rooms_data = load_rooms(variant, room_rows)
    /\ \E item_rows \in Tables : items_data = load_items(variant, item_rows)
    /\ weighted_rooms = <<>>
    /\ weighted_items = <<>>
    /\ trail = <<>>
    /\ player_pos = <<0, 0>>
    /\ backpack = EmptyBackpack
    /\ move_timer = 0
    /\ last = [op |-> "load", ret |-> ""]

create_weighted_lists ==
    /\ last.op = "load"
    /\ weighted_rooms' = create_weighted_list(variant, rooms_data)
    /\ weighted_items' = create_weighted_list(variant, items_data)
    /\ last' = [op |-> "create_weighted_lists", ret |-> ""]
    /\ UNCHANGED <<variant, rooms_data, items_data, trail, player_pos, backpack,
                   move_timer>>

GenerateRoom ==
    /\ last.op # "load"
    /\ \E room \in generate_room(variant, weighted_rooms) :
          last' = [op |-> "generate_room", ret |-> room.name]
    /\ UNCHANGED <<content, trail, player_pos, backpack, move_timer>>

GenerateItem(tier) ==
    /\ last.op # "load"
    /\ \E item_name \in generate_item(weighted_items, tier) :
          last' = [op |-> "generate_item", ret |-> item_name, tier |-> tier]
    /\ UNCHANGED <<content, trail, player_pos, backpack, move_timer>>

NextCatalog ==
    \/ create_weighted_lists
    \/ GenerateRoom
    \/ \E tier \in TierRolls : GenerateItem(tier)

SpecCatalog == InitCatalog /\ [][NextCatalog]_vars

(***************************************************************************)
(* The generator on its own: one room template and at most one item        *)
(* template are loaded, and the generator is asked for items and for loot. *)
(***************************************************************************)
\* the item templates: each tier field blank or named, tier2 possibly not a
\* column of the table, the name present, empty or not a column
ItemTemplates ==
    {[k \in {"probability", "tier0", "tier1"} \cup opt |->
         CASE k = "probability" -> "1"
           [] k = "tier0" -> t0
           [] k = "tier1" -> t1
           [] k = "tier2" -> t2
           [] k = "name" -> nm] :
        t0 \in {"", " ", "Y"}, t1 \in {"", " ", "X"}, t2 \in {"", "W"},
        nm \in {"", "Z"}, opt \in SUBSET {"tier2", "name"}}

\* the max_loot column of the room template
MaxLootFields == {"0", "-1", "2", "2.5", "abc", NoField}

LootRoom(m) ==
    IF m = NoField THEN [name |-> "Vault", probability |-> "1"]
    ELSE [name |-> "Vault", probability |-> "1", max_loot |-> m]

InitGenerator ==
    \E m \in MaxLootFields :
        \E item_rows \in {<<>>} \cup {<<t>> : t \in ItemTemplates} :
            /\ variant \in Variants
            /\ rooms_data = load_rooms(variant, <<LootRoom(m)>>)
            /\ items_data = load_items(variant, item_rows)
            /\ weighted_rooms = create_weighted_list(variant, rooms_data)
            /\ weighted_items = create_weighted_list(variant, items_data)
            /\ trail = <<>>
            /\ player_pos = <<0, 0>>
            /\ backpack = EmptyBackpack
            /\ move_timer = 0
            /\ last = [op |-> "init", ret |-> ""]

GenerateRoomLoot ==
    /\ last.op # "load"
    /\ \E room_data \in generate_room(variant, weighted_rooms) :
          \E room_loot \in generate_room_loot(variant, weighted_items, room_data) :
              last' = [op |-> "generate_room_loot", ret |-> room_loot,
                       room |-> room_data]
    /\ UNCHANGED <<content, trail, player_pos, backpack, move_timer>>

NextGenerator ==
    \/ \E tier \in TierRolls : GenerateItem(tier)
    \/ GenerateRoomLoot

SpecGenerator == InitGenerator /\ [][NextGenerator]_vars

\* The generator asked for the loot of rooms that allow less and more than
\* the cap on one room's items; the items have one name or two
InitLoot ==
    \E m \in MaxLootFields \cup {"1", "8"} :
        \E item_rows \in {<<CoinItem>>, <<RockItem>>} :
            /\ variant \in Variants
            /\ rooms_data = load_rooms(variant, <<LootRoom(m)>>)
            /\ items_data = load_items(variant, item_rows)
            /\ weighted_rooms = create_weighted_list(variant, rooms_data)
            /\ weighted_items = create_weighted_list(variant, items_data)
            /\ trail = <<>>
            /\ player_pos = <<0, 0>>
            /\ backpack = EmptyBackpack
            /\ move_timer = 0
            /\ last = [op |-> "init", ret |-> ""]
NextLoot == GenerateRoomLoot
SpecLoot == InitLoot /\ [][NextLoot]_vars

\* The generator asked for items at tiers on both sides of 0..MAX_TIER
Tiers == (0 - TierSpan)..(MAX_TIER + TierSpan)
InitTiers == InitGenerator
NextTiers == \E tier \in Tiers : GenerateItem(tier)
SpecTiers == InitTiers /\ [][NextTiers]_vars

(***************************************************************************)
(* Properties.                                                             *)
(***************************************************************************)
Moved(ret) == last'.op = "move" /\ last'.ret = ret

\* C1: after every move the trail holds at most MEMORY_LIMIT (12) entries.
C1_TrailCapacity == Len(trail) <= MEMORY_LIMIT

\* a move into a thirteenth cell has just evicted an entry
C1_Witness == last.ret = "evict" /\ Len(trail) = MEMORY_LIMIT

\* C2: the positions of the trail entries are pairwise distinct.
C2_DistinctPositions ==
    \A i, j \in DOMAIN trail : i # j => trail[i].pos # trail[j].pos

\* the player has stepped back onto a cell remembered deeper in the trail
C2_Witness ==
    /\ last.ret = "revisit"
    /\ Len(trail) >= 4
    /\ trail[1].pos[1] < trail[2].pos[1]
    /\ trail[2].pos[1] < trail[3].pos[1]

\* C3: a move onto a remembered position leaves that entry's room, loot and
\* looted flag as they were; the entry only moves to the head of the trail.
C3_RevisitKeepsEntry ==
    [][Moved("revisit") =>
          \E i \in DOMAIN trail :
              /\ trail[i].pos = player_pos'
              /\ trail'[1] = trail[i]]_vars

\* a looted room with loot has just been re-entered
C3_Witness == last.ret = "revisit" /\ trail[1].looted /\ Len(trail) >= 2

\* C4: a move that exceeds the limit removes exactly the entry that was last
\* (oldest) before the move; the other eleven follow the new head in order.
C4_EvictsOldest ==
    [][Moved("evict") =>
          /\ Len(trail) = MEMORY_LIMIT
          /\ Len(trail') = MEMORY_LIMIT
          /\ trail'[1].pos = player_pos'
          /\ \A i \in 1..(MEMORY_LIMIT - 1) : trail'[i + 1] = trail[i]
          /\ \A i \in DOMAIN trail' : trail'[i].pos # trail[MEMORY_LIMIT].pos]_vars

\* the start cell has been evicted: twelve cells are remembered, not (0,0)
C4_Witness ==
    /\ last.ret = "evict"
    /\ Len(trail) = MEMORY_LIMIT
    /\ \A i \in DOMAIN trail : trail[i].pos # <<0, 0>>

\* C5: the entry at the head of the trail is the player's cell, at start-up and
\* after every move, evicting or not.
C5_HeadIsPlayer == trail # <<>> /\ trail[1].pos = player_pos

\* the player stands on a cell entered by an evicting move
C5_Witness == last.ret = "evict" /\ player_pos # <<0, 0>> /\ trail[1].pos = player_pos

\* bp2 is bp with one more of item and nothing else changed
OneMore(bp, bp2, item) ==
    /\ DOMAIN bp2 = DOMAIN bp \cup {item}
    /\ bp2[item] = Held(bp, item) + 1
    /\ \A n \in DOMAIN bp : n # item => bp2[n] = bp[n]

\* C6: the backpack never holds more than BACKPACK_CAPACITY (20) items, after
\* any interleaving of moves, loot actions and searches.
C6_BackpackCapacity == Total(backpack) <= BACKPACK_CAPACITY

\* the backpack is full and a search has just been refused an add
C6_Witness == last.ret = "search full" /\ Total(backpack) = BACKPACK_CAPACITY

\* C7: add_to_backpack fails and changes nothing when the total held count is
\* the capacity; otherwise it succeeds and raises that item's count by one
\* (creating the key), leaving the other counts alone.  The total decides, not
\* the number of distinct names.  Stated on the searches, each of which calls
\* add_to_backpack once and reports what it returned.
C7_AddToBackpack ==
    [][/\ last'.ret = "search full" =>
              /\ Total(backpack) = BACKPACK_CAPACITY
              /\ backpack' = backpack
       /\ last'.ret = "search found" =>
              /\ Total(backpack) < BACKPACK_CAPACITY
              /\ \E item \in DOMAIN backpack' : OneMore(backpack, backpack', item)]_vars

\* an add was refused with twenty items of only two names in the backpack
C7_Witness ==
    /\ last.ret = "search full"
    /\ Total(backpack) = BACKPACK_CAPACITY
    /\ Cardinality(DOMAIN backpack) = 2

\* the current entry's looted flag goes from false to true in this step
BecomesLooted ==
    /\ Len(trail') = Len(trail)
    /\ trail'[1].pos = trail[1].pos
    /\ ~trail[1].looted
    /\ trail'[1].looted

\* C8: looted becomes true only with the take of the entry's last item, never
\* while an item of its loot has not gone into the inventory: in the step that
\* sets the flag, every item still in the entry's loot list enters the backpack.
C8_LootedOnlyWhenAllTaken ==
    [][BecomesLooted =>
          Total(backpack') - Total(backpack) = Len(trail[1].loot)]_vars

\* this step is a loot action: the L key, or a "take loot" slot
LootStep ==
    \/ last'.op = "loot key"
    \/ last'.ret \in {"found", "nothing to take", "backpack full"}

\* C9: taking loot in a room that has loot with the backpack at capacity
\* changes neither the entry's loot list, nor its looted flag, nor the backpack.
C9_FullTakeChangesNothing ==
    [][(LootStep /\ trail[1].loot # <<>> /\ Total(backpack) = BACKPACK_CAPACITY) =>
          /\ trail' = trail
          /\ backpack' = backpack]_vars

\* C10: action_take_loot with loot and room in the backpack removes the first
\* item of the loot list, adds one of it to the backpack and sets looted iff
\* the list is then empty; with no loot it changes nothing and says so.
C10_TakeLoot ==
    [][last'.ret \in {"found", "nothing to take", "backpack full"} =>
          /\ (trail[1].loot # <<>> /\ Total(backpack) < BACKPACK_CAPACITY) =>
                /\ last'.ret = "found"
                /\ trail'[1].loot = Tail(trail[1].loot)
                /\ OneMore(backpack, backpack', Head(trail[1].loot))
                /\ trail'[1].looted <=> (trail'[1].loot = <<>>)
                /\ trail' = [trail EXCEPT ![1].loot = trail'[1].loot,
                                          ![1].looted = trail'[1].looted]
          /\ trail[1].loot = <<>> =>
                /\ last'.ret = "nothing to take"
                /\ trail' = trail
                /\ backpack' = backpack]_vars

\* the first of two different items has been taken: the second is still there
C10_Witness ==
    /\ last.ret = "found"
    /\ trail[1].loot = <<"stone">>
    /\ ~trail[1].looted
    /\ backpack = [n \in {"pebble"} |-> 1]

\* an entry that was emptied is asked for loot again
C10_WitnessEmpty == last.ret = "nothing to take" /\ trail[1].looted

\* the pools have been built
Built == last.op # "load"

\* the value of a record's probability field when it is an integer above 0,
\* and 0 otherwise
Weight(rec) ==
    IF "probability" \in DOMAIN rec /\ rec.probability \in IntStrings
       /\ IntOf(rec.probability) > 0
    THEN IntOf(rec.probability) ELSE 0

\* how many times rec is in the pool
Count(pool, rec) == Cardinality({i \in DOMAIN pool : pool[i] = rec})

Weights(data) == {Weight(data[i]) : i \in DOMAIN data}

\* C11 as stated: a record of positive probability is in the pool that many
\* times, and a record whose probability is "0", negative, missing or not an
\* integer is not in the pool at all.
PoolByWeight(data, pool) ==
    \A i \in DOMAIN data : Count(pool, data[i]) = Weight(data[i])

C11_PoolByWeightOnly ==
    Built => PoolByWeight(rooms_data, weighted_rooms)
             /\ PoolByWeight(items_data, weighted_items)

\* C11 (amended): a record of positive probability is in the pool exactly
\* that many times; a record without one is in the pool only when it is the
\* first record of a table none of whose records has a positive probability,
\* and then it is the whole pool.
PoolByWeightOrFirst(data, pool) ==
    \A i \in DOMAIN data :
        \/ Count(pool, data[i]) = Weight(data[i])
        \/ /\ i = 1
           /\ Weights(data) = {0}
           /\ pool = <<data[1]>>

C11_PoolByWeight ==
    Built => PoolByWeightOrFirst(rooms_data, weighted_rooms)
             /\ PoolByWeightOrFirst(items_data, weighted_items)

\* a rooms table with a record of probability 2 and one without a positive
\* probability gave a pool of two entries, and an items table whose first
\* record has no positive probability gave a pool of that record alone
C11_Witness ==
    /\ Built
    /\ Weights(rooms_data) = {0, 2}
    /\ Len(weighted_rooms) = 2
    /\ Weights(items_data) = {0}
    /\ weighted_items = <<items_data[1]>>

\* the table has records and none of them has a positive probability
NoPositive(data) == data # <<>> /\ Weights(data) = {0}

\* C12: when the table is not empty and no record has a positive integer
\* probability, the pool is exactly the first raw record, for the room pool and
\* the item pool in every variant.
C12_FirstRecordFallback ==
    Built => /\ NoPositive(rooms_data) => weighted_rooms = <<rooms_data[1]>>
             /\ NoPositive(items_data) => weighted_items = <<items_data[1]>>

\* the same in wanderer.py and v0-3 only
C12_FallbackWhereCoded == variant # "v0_2" => C12_FirstRecordFallback

\* the source of the table gave no records
RoomsMissing == rooms_data = load_rooms(variant, <<>>)
ItemsMissing == items_data = load_items(variant, <<>>)

\* the rooms generate_room can return, and the item templates generate_item
\* draws from (the one hard-coded name when the pool is empty)
ExposedRooms == generate_room(variant, weighted_rooms)
ExposedItems ==
    IF weighted_items = <<>> THEN generate_item(weighted_items, 0)
    ELSE Range(weighted_items)

\* generate_room and generate_item return a result, and the item has a name
GeneratorAnswers ==
    /\ ExposedRooms # {}
    /\ \A tier \in TierRolls :
          /\ generate_item(weighted_items, tier) # {}
          /\ "" \notin generate_item(weighted_items, tier)

Named(item, t) ==
    TierKey(t) \in DOMAIN item /\ item[TierKey(t)] \notin {"", " "}

\* the first non-blank value among tier{t}, ..., tier0, else the name field
\* (the literal 'Unknown Item' for a table without a name column)
RECURSIVE FirstNamed(_, _)
FirstNamed(item, t) ==
    IF t < 0 THEN Get(item, "name", "Unknown Item")
    ELSE IF Named(item, t) THEN item[TierKey(t)]
    ELSE FirstNamed(item, t - 1)

\* C14: for a sampled template and a tier t in {0,1,2}, generate_item returns
\* the first non-blank value among tier{t}, ..., tier0, in that order, and the
\* name field when all of those are blank.
C14_TierFallback ==
    (last.op = "generate_item" /\ weighted_items # <<>>) =>
        last.ret \in {FirstNamed(weighted_items[i], last.tier) :
                         i \in DOMAIN weighted_items}

\* tier2 = "", tier1 = "X", tier0 = "Y" asked at tier 2 gave "X"
C14_Witness ==
    /\ last.op = "generate_item"
    /\ last.tier = 2
    /\ last.ret = "X"
    /\ weighted_items = <<[name |-> "Z", probability |-> "1", tier0 |-> "Y",
                           tier1 |-> "X", tier2 |-> ""]>>

\* all tiers blank and the name "Z" gave "Z"
C14_WitnessName ==
    /\ last.op = "generate_item"
    /\ last.ret = "Z"
    /\ \A t \in TierRolls : ~Named(weighted_items[1], t)

\* C15: generate_item returns a non-empty string for every item pool (the
\* empty pool too), every template in it (all tiers blank and the name blank
\* or absent too) and every tier.
C15_ItemNameNotEmpty == last.op = "generate_item" => last.ret # ""

\* the same for the templates that have a name, a named tier or no name column
C15_NotEmptyWhenNamed ==
    (last.op = "generate_item"
     /\ \A i \in DOMAIN weighted_items :
           \/ "name" \notin DOMAIN weighted_items[i]
           \/ weighted_items[i].name # ""
           \/ \E t \in 0..last.tier : Named(weighted_items[i], t))
    => last.ret # ""

\* C16: a room whose max_loot is "0" or below gets an empty loot list from
\* generate_room_loot, whatever the draws are, in all three variants.
C16_NoLootAtZero ==
    (/\ last.op = "generate_room_loot"
     /\ "max_loot" \in DOMAIN last.room
     /\ last.room.max_loot \in {"0", "-1"})
    => last.ret = <<>>

\* wanderer.py was asked for the loot of a room of max_loot "-1"
C16_Witness ==
    /\ variant = "wanderer"
    /\ last.op = "generate_room_loot"
    /\ Get(last.room, "max_loot", "") = "-1"
    /\ last.ret = <<>>

\* a room of max_loot "2" got two items
C16_WitnessLoot ==
    /\ last.op = "generate_room_loot"
    /\ Get(last.room, "max_loot", "") = "2"
    /\ Len(last.ret) = 2

Xs(tr) == {tr[i].pos[1] : i \in DOMAIN tr}
Ys(tr) == {tr[i].pos[2] : i \in DOMAIN tr}

\* lo..hi is the least interval that holds every member of S
Spans(lo, hi, S) ==
    /\ \A v \in S : lo <= v /\ v <= hi
    /\ lo \in S /\ hi \in S

\* C17: the view bounds are the bounding box of the trail positions with
\* BUFFER_TILES (1) more on every side, view_width and view_height count the
\* columns and rows of that box, and the trail [(0,0),(1,0),(2,0)] gives
\* min_x=-1, max_x=3, min_y=-1, max_y=1, view_width=5, view_height=3.
C17_ViewBounds ==
    LET vb == view_bounds(trail)
    IN  /\ Spans(vb.min_x + 1, vb.max_x - 1, Xs(trail))
        /\ Spans(vb.min_y + 1, vb.max_y - 1, Ys(trail))
        /\ view_width(trail) = Cardinality(vb.min_x .. vb.max_x)
        /\ view_height(trail) = Cardinality(vb.min_y .. vb.max_y)
        /\ [i \in DOMAIN trail |-> trail[i].pos] = << <<0, 0>>, <<1, 0>>, <<2, 0>> >>
           => /\ vb = [min_x |-> 0 - 1, max_x |-> 3, min_y |-> 0 - 1, max_y |-> 1]
              /\ view_width(trail) = 5
              /\ view_height(trail) = 3

\* the trail is [(0,0),(1,0),(2,0)]: the player went two cells east and back
C17_Witness ==
    /\ last.op = "move"
    /\ [i \in DOMAIN trail |-> trail[i].pos] = << <<0, 0>>, <<1, 0>>, <<2, 0>> >>
    /\ view_width(trail) = 5 /\ view_height(trail) = 3

\* C18: tile_size is the largest integer t with t * view_width <= 600
\* (GAME_WIDTH) and t * view_height <= 600, for every reachable trail.
C18_LargestTile ==
    LET t == tile_size(trail)
        w == view_width(trail)
        h == view_height(trail)
    IN  /\ t * w <= 600
        /\ t * h <= 600
        /\ (t + 1) * w > 600 \/ (t + 1) * h > 600

\* a view higher than wide whose height does not divide 600
C18_Witness ==
    /\ view_height(trail) = 7
    /\ view_width(trail) < 7
    /\ tile_size(trail) = 85

\* this step is an accepted move: move_player has run
MoveAccepted == player_pos' # player_pos

\* the cooldown has run out by the time the events of some frame are read
CooldownOver == \E dt \in FrameTimes : Ticked(dt) <= 0

\* C20: a move is accepted only when the cooldown has run out (move_timer <= 0
\* when the input is read), whatever the input path; before that the trail and
\* the player position stay as they are; and every accepted move restarts the
\* cooldown.
C20_MoveCooldown ==
    [][/\ MoveAccepted => CooldownOver /\ move_timer' = MOVE_COOLDOWN
       /\ ~CooldownOver =>
             /\ player_pos' = player_pos
             /\ [i \in DOMAIN trail' |-> trail'[i].pos]
                    = [i \in DOMAIN trail |-> trail[i].pos]]_vars

\* the same for v0-2 and v0-3, which move by key only
C20_KeysWaitForCooldown ==
    [][(variant # "wanderer" /\ MoveAccepted)
          => CooldownOver /\ move_timer' = MOVE_COOLDOWN]_vars

\* a key was taken 0.15 s after the move before it
C20_WitnessKey ==
    /\ variant = "v0_3"
    /\ last.op = "move"
    /\ move_timer = MOVE_COOLDOWN
    /\ Len(trail) = 3

PosSet(tr) == {tr[k].pos : k \in DOMAIN tr}

\* tr2 is tr with the entry at index i taken to the head and nothing else moved
Permuted(tr, tr2, i) ==
    /\ tr2 = <<tr[i]>> \o SubSeq(tr, 1, i - 1) \o SubSeq(tr, i + 1, Len(tr))
    /\ Len(tr2) = Len(tr)
    /\ PosSet(tr2) = PosSet(tr)

\* C21: a move_player whose target is already in the trail only permutes the
\* trail: the matching entry goes to index 0, the others keep their relative
\* order, the length and the set of positions are unchanged and nothing is
\* evicted; a move to the current position leaves the whole trail unchanged.
C21_RevisitPermutes ==
    [][/\ \A i \in DOMAIN trail :
              Permuted(trail, move_player(variant, trail, trail[i].pos, trail[i]), i)
       /\ move_player(variant, trail, player_pos, trail[1]) = trail
       /\ Moved("revisit") =>
              \E i \in DOMAIN trail :
                  /\ trail[i].pos = player_pos'
                  /\ Permuted(trail, trail', i)]_vars

\* a full trail of twelve cells has just been reordered by a step back
C21_Witness ==
    /\ last.ret = "revisit"
    /\ Len(trail) = MEMORY_LIMIT
    /\ trail[1].pos[1] < trail[2].pos[1]

\* C22: an evicted cell keeps no identity: a move onto a position that is not
\* in the trail (a cell never seen, or one seen and evicted) is a cache miss
\* that puts at the head a fresh entry with looted = false and a newly
\* generated room and loot, whatever the cell held before.
C22_EvictedIsForgotten ==
    [][(last'.op = "move" /\ player_pos' \notin PosSet(trail)) =>
          /\ last'.ret \in {"new", "evict"}
          /\ trail'[1] \in FreshEntries(player_pos')
          /\ ~trail'[1].looted
          /\ (last'.ret = "evict" => trail[Len(trail)].pos \notin PosSet(trail'))]_vars

\* the start cell was looted, forgotten at the far end of the corridor and has
\* just been entered again: its coin is in the backpack and in the room
C22_Witness ==
    /\ last.op = "move"
    /\ last.ret = "evict"
    /\ player_pos = <<0, 0>>
    /\ Held(backpack, "coin") >= 1
    /\ trail[1].loot = <<"coin">>
    /\ ~trail[1].looted

Clamped(t) == Max(0, Min(t, MAX_TIER))

\* C23: generate_item clamps the tier to [0,2]: for every template and every
\* integer tier t, below 0 and above 2 included, the result is the result for
\* max(0, min(t, 2)).
C23_TierClamped ==
    last.op = "generate_item" =>
        last.ret \in generate_item(weighted_items, Clamped(last.tier))

\* the same for the tiers from 0 up, where min(tier, 2) does clamp
C23_ClampedFromAbove ==
    (last.op = "generate_item" /\ last.tier >= 0) =>
        last.ret \in generate_item(weighted_items, Clamped(last.tier))

\* tier0 = "Y" and the name "Z" asked at a tier below 0 gave "Z"
C23_WitnessBelow ==
    /\ last.op = "generate_item"
    /\ last.tier < 0
    /\ last.ret = "Z"
    /\ weighted_items # <<>>
    /\ Get(weighted_items[1], "tier0", "") = "Y"

\* the cap on the number of items of one room
upper_cap(v) == IF v = "v0_3" THEN LOOT_CAP_V03 ELSE LOOT_CAP_OLD

\* the max_loot column as the variant reads it: the number it parses to, the
\* variant's default when it is missing or does not parse
ReadMaxLoot(v, room) ==
    LET default == IF v = "v0_3" THEN DEFAULT_MAX_LOOT_V03 ELSE DEFAULT_MAX_LOOT_OLD
        field == Get(room, "max_loot", NoField)
    IN  CASE field = NoField -> default
          [] field = "abc" -> default
          [] field = "2.5" -> IF v = "v0_3" THEN 2 ELSE default
          [] OTHER -> IntOf(field)

\* C24: for max_loot > 0, generate_room_loot returns a list of k items with
\* 1 <= k <= min(max_loot, upper_cap), upper_cap 5 in v0-3 and 3 in wanderer.py
\* and v0-2: never more than max_loot items; a max_loot that does not parse is
\* replaced by the variant's default before the bound is applied.
C24_LootCount ==
    (last.op = "generate_room_loot" /\ ReadMaxLoot(variant, last.room) > 0) =>
        /\ 1 <= Len(last.ret)
        /\ Len(last.ret) <= Min(ReadMaxLoot(variant, last.room), upper_cap(variant))
        /\ Len(last.ret) <= ReadMaxLoot(variant, last.room)

\* a room of max_loot "8" got as many items as the variant's cap allows
C24_Witness ==
    /\ last.op = "generate_room_loot"
    /\ Get(last.room, "max_loot", "") = "8"
    /\ Len(last.ret) = upper_cap(variant)

\* v0-2 read max_loot "abc" as 6 and drew three items
C24_WitnessDefault ==
    /\ variant = "v0_2"
    /\ last.op = "generate_room_loot"
    /\ Get(last.room, "max_loot", "") = "abc"
    /\ Len(last.ret) = LOOT_CAP_OLD

\* the action perform_action makes of a text
ActionOf(action_text) == Lower(Strip(action_text))

\* C25: in perform_action the actions "search", "search+", "leave", "rest",
\* "inspect" and the generic ones never change the current entry's loot list
\* or looted flag; "leave", "rest", "inspect", a generic action and the empty
\* action leave the inventory unchanged, and "search" and "search+" add at
\* most one item to it.
C25_ActionFrame ==
    [][last'.op = "perform_action" =>
          /\ ActionOf(last'.action) # "take loot" =>
                /\ trail'[1].loot = trail[1].loot
                /\ trail'[1].looted = trail[1].looted
                /\ trail' = trail
          /\ ActionOf(last'.action) \notin {"take loot", "search", "search+"} =>
                backpack' = backpack
          /\ ActionOf(last'.action) \in {"search", "search+"} =>
                \/ backpack' = backpack
                \/ \E item \in DOMAIN backpack' : OneMore(backpack, backpack', item)]_vars

\* a search has found an item in a room whose loot is still all there
C25_Witness ==
    /\ last.op = "perform_action"
    /\ ActionOf(last.action) = "search"
    /\ last.ret = "search found"
    /\ Total(backpack) = 1
    /\ Len(trail[1].loot) = 2
    /\ ~trail[1].looted

\* the empty action has been asked for with items in the backpack
C25_WitnessEmpty ==
    /\ last.op = "perform_action"
    /\ last.action = " "
    /\ last.ret = "no action"
    /\ Total(backpack) >= 2

\* C26: each trail entry's room is an independent copy of the drawn template:
\* no sequence of moves and actions changes any record of the weighted room
\* pool or of the raw room records, and no two trail entries share the same
\* room record (nor does an entry share one with the pool).
C26_RoomsAreCopies ==
    [][/\ weighted_rooms' = weighted_rooms
       /\ rooms_data' = rooms_data
       /\ \A i, j \in DOMAIN trail' : i # j => trail'[i].id # trail'[j].id
       /\ \A i \in DOMAIN trail' : trail'[i].id \notin 1..Len(rooms_data')]_vars

\* every cell of the lane is remembered, two of them drawn from the same
\* template, and the loot of one of the two has been taken
C26_Witness ==
    /\ Len(trail) = LaneLen
    /\ trail[1].room = trail[2].room
    /\ trail[1].looted
    /\ ~trail[2].looted
    /\ trail[2].loot # <<>>

\* the step of the walk at which p was entered last
LastAt(h, p) == CHOOSE i \in DOMAIN h : h[i] = p /\ \A j \in DOMAIN h : h[j] = p => j <= i

\* C27: after any sequence of moves the trail is exactly the
\* min(MEMORY_LIMIT, number of distinct cells visited) most recently visited
\* distinct positions, the most recent first: an LRU list of capacity 12.
C27_TrailIsLRU ==
    LET h == Visited
        pos == [i \in DOMAIN trail |-> trail[i].pos]
    IN  /\ Len(trail) = Min(MEMORY_LIMIT, Cardinality(Range(h)))
        /\ \A i \in DOMAIN pos : pos[i] \in Range(h)
        /\ \A i, j \in DOMAIN pos : i < j => LastAt(h, pos[i]) > LastAt(h, pos[j])
        /\ \A p \in Range(h) \ Range(pos) :
              \A i \in DOMAIN pos : LastAt(h, p) < LastAt(h, pos[i])

\* the start cell was entered a second time and is still remembered when the
\* cell south of it, entered first after the start, has been evicted
C27_Witness ==
    /\ last.op = "move"
    /\ last.ret = "evict"
    /\ Len(trail) = MEMORY_LIMIT
    /\ trail[MEMORY_LIMIT].pos = <<0, 0>>
    /\ <<0, 1>> \in Range(Visited)
    /\ \A i \in DOMAIN trail : trail[i].pos # <<0, 1>>

\* one unit step apart
Adjacent(p, q) ==
    \/ p[1] = q[1] /\ (p[2] - q[2] = 1 \/ q[2] - p[2] = 1)
    \/ p[2] = q[2] /\ (p[1] - q[1] = 1 \/ q[1] - p[1] = 1)

\* the cells of S that unit steps inside S reach from the cells of seen
RECURSIVE Reach(_, _)
Reach(seen, S) ==
    LET more == seen \cup {q \in S : \E p \in seen : Adjacent(p, q)}
    IN  IF more = seen THEN seen ELSE Reach(more, S)

FourConnected(S) == S # {} /\ Reach({CHOOSE p \in S : TRUE}, S) = S

\* C28: in every state reachable by unit-step moves the trail is non-empty and
\* its positions form a 4-connected set, so that view_width and view_height
\* never exceed MEMORY_LIMIT + 2 * BUFFER_TILES = 14 and tile_size is at least 1.
C28_ConnectedTrail ==
    /\ trail # <<>>
    /\ FourConnected(PosSet(trail))
    /\ view_width(trail) <= MEMORY_LIMIT + 2 * BUFFER_TILES
    /\ view_height(trail) <= MEMORY_LIMIT + 2 * BUFFER_TILES
    /\ tile_size(trail) >= 1

\* twelve cells in a row are remembered after an eviction: the view is 14 wide
C28_Witness ==
    /\ last.op = "move"
    /\ last.ret = "evict"
    /\ view_width(trail) = MEMORY_LIMIT + 2 * BUFFER_TILES
    /\ <<0, 1>> \in Range(Visited)

\* the side cell and eleven cells of the corridor are remembered
C28_WitnessBent ==
    /\ Len(trail) = MEMORY_LIMIT
    /\ view_height(trail) = 2 + 2 * BUFFER_TILES
    /\ view_width(trail) = MEMORY_LIMIT - 1 + 2 * BUFFER_TILES

\* the step is a loot action on the current entry: the L key, or a numeric key
\* whose slot says "take loot"
LootAction ==
    \/ last'.op = "loot key"
    \/ /\ last'.op \in {ActionSlot(n) : n \in 1..5}
       /\ ActionOf(Get(trail[1].room, last'.op, "")) = "take loot"

\* C29: once an entry's looted flag is true it stays true for as long as the
\* entry is in the trail, across moves and revisits, and no later loot action
\* on that entry adds any item to the inventory.
C29_LootedStays ==
    [][/\ \A i \in DOMAIN trail :
              trail[i].looted =>
                  \A j \in DOMAIN trail' :
                      trail'[j].pos = trail[i].pos => trail'[j].looted
       /\ (LootAction /\ trail[1].looted) => backpack' = backpack]_vars

\* the L key has been pressed in a room that was looted before and still
\* lists its loot
C29_Witness ==
    /\ last.op = "loot key"
    /\ last.ret \in {"already looted", "skipped"}
    /\ trail[1].looted
    /\ trail[1].loot # <<>>
    /\ Len(trail) = WorldLen

\* a looted room has been left and entered again, and its loot asked for
C29_WitnessTake ==
    /\ last.ret = "nothing to take"
    /\ trail[1].looted
    /\ Len(trail) = WorldLen
    /\ Total(backpack) >= 2

\* the step is the handling of a numeric key or of the L key
ActionStep == last'.op = "loot key" \/ last'.op \in {ActionSlot(n) : n \in 1..5}

\* C30: an action (numeric key or loot key) changes at most the loot list and
\* the looted flag of the entry at index 0, and the inventory: never the
\* trail's length or order, any entry's pos or room, player_pos, the cooldown
\* timer (which only takes the frame's tick), or another entry's loot or
\* looted flag.
C30_ActionTouchesHeadOnly ==
    [][ActionStep =>
          /\ Len(trail') = Len(trail)
          /\ \A i \in DOMAIN trail :
                /\ trail'[i].pos = trail[i].pos
                /\ trail'[i].room = trail[i].room
                /\ i # 1 => trail'[i] = trail[i]
          /\ player_pos' = player_pos
          /\ move_timer' = Ticked(MOVE_COOLDOWN)]_vars

\* a numeric key has taken an item in the second room entered; the first
\* room's loot is as it was
C30_Witness ==
    /\ last.op = "action1"
    /\ last.ret = "found"
    /\ Len(trail) = WorldLen
    /\ trail[1].loot # trail[2].loot
    /\ ~trail[2].looted
    /\ trail[2].loot # <<>>

\* the L key has collected the loot of the second room entered
C30_WitnessKey ==
    /\ last.op = "loot key"
    /\ trail[1].looted
    /\ Len(trail) = WorldLen
    /\ ~trail[2].looted
    /\ Total(backpack) >= 1

====
